---------------------------- MODULE Spec2Model ----------------------------
(***************************************************************************)
(* Model of coold-rs: the fan controller of src/src/daemon.rs (the control *)
(* loop FanController::run, the facade update_config / stop, the PWM       *)
(* actuator and the curve evaluator), the management handlers of           *)
(* src/src/api.rs that reach the controller, and the process wiring of     *)
(* src/src/main.rs.                                                        *)
(***************************************************************************)
EXTENDS Integers, Sequences, FiniteSets, TLC

VARIABLES
    config,           \* FanController.config: the Config behind the RwLock
    running,          \* FanController.running: the AtomicBool
    pc,               \* position of the control-loop thread inside run()
    fans_to_process,  \* run(): the snapshot cloned at the top of an iteration
    last_hw_map,      \* run(): the fingerprint of the last (re)initialization
    guard,            \* TRUE while the loop thread holds a read guard on config
    passDone,         \* fan names already visited by the current for-loop
    cleaned,          \* <<name, fan>> given to set_pwm_enable_with_retry(fan,false) by the latest cleanup_fans
    inited,           \* <<name, fan>> given to set_pwm_enable_with_retry(fan,true) by the latest init_fans
    actuated,         \* <<name, fan, pwm>> given to set_fan_power in the current iteration
    unread,           \* names of the fans whose sensor read failed in the current iteration
    pwm_failed,       \* names of the fans whose PWM write failed in the current iteration
    iterPasses,       \* the cleanup/init passes started in the current iteration, in order
    iter_hw_map,      \* last_hw_map as it was when the current iteration took its snapshot
    pwm_enable,       \* content of each <pwm_input>_enable file
    mgmt_pc,          \* the management handler holding the controller mutex: "idle" or "write_wait"
    mgmt_new,         \* the Config that handler is about to store
    written,          \* every Config given to FanController::new or update_config so far
    stops,            \* number of stop requests made (stop() and the Ctrl+C handler)
    updates,          \* number of update_config calls made
    server,           \* start_api: "binding", then "serving" or "failed"
    retry,            \* one set_pwm_enable_with_retry call, followed attempt by attempt
    curve,            \* one get_fan_power call: its arguments and what it returned
    pwm_out,          \* one set_fan_power call: the percentage and what reached the PWM file
    handler,          \* the management request each HTTP worker is serving, and its response
    mutex,            \* ApiState.controller: the worker holding the Mutex, or 0
    config_json,      \* what save_config last wrote to config.json
    requests,         \* number of management requests received
    startup,          \* one create_config call: config.json, the hwmon directories, the result
    parse             \* one `update`/`add` CLI command: its steps argument, parse_steps' result

loopVars == <<config, running, pc, fans_to_process, last_hw_map, guard, passDone,
              cleaned, inited, actuated, unread, pwm_failed, iterPasses, iter_hw_map, pwm_enable,
              mgmt_pc, mgmt_new, written, stops, updates, server>>

apiVars == <<handler, mutex, config_json, requests>>

cliVars == <<startup, parse>>

callVars == <<retry, curve, pwm_out, apiVars, cliVars>>

vars == <<loopVars, callVars>>

----------------------------------------------------------------------------
(* Bounds of the model *)

MaxUpdates == 2
MaxStops == 2
MaxLiveUpdates == 1

(* Program constants *)

MaxAttempts == 10

----------------------------------------------------------------------------
(* Data model: FanStep, FanConfig, Config *)

FanNames == {"fan_1", "fan_2"}

PwmPaths == {"/hw1/pwm1", "/hw1/pwm2"}

HwA == [sensor_name |-> "coretemp", sensor_input |-> "/hw0/temp1_input",
        pwm_name |-> "nct6775", pwm_input |-> "/hw1/pwm1"]

HwB == [sensor_name |-> "coretemp", sensor_input |-> "/hw0/temp1_input",
        pwm_name |-> "nct6775", pwm_input |-> "/hw1/pwm2"]

CurveA == << [temp |-> 30, power |-> 10], [temp |-> 60, power |-> 50] >>

CurveB == << [temp |-> 40, power |-> 30], [temp |-> 70, power |-> 90] >>

FanConfig(hw, steps) ==
    [sensor_name |-> hw.sensor_name, sensor_input |-> hw.sensor_input,
     pwm_name |-> hw.pwm_name, pwm_input |-> hw.pwm_input, steps |-> steps]

EmptyFans == [n \in {} |-> HwA]

\* The Configs the model starts from and the ones the management interface sends:
\* a curve-only edit, a remapping, an added fan, a fan replaced by another, no fan.
OneFan == [n \in {"fan_1"} |-> FanConfig(HwA, CurveA)]

OneFanCurve == [n \in {"fan_1"} |-> FanConfig(HwA, CurveB)]

OneFanRemapped == [n \in {"fan_1"} |-> FanConfig(HwB, CurveA)]

TwoFans == [n \in FanNames |-> IF n = "fan_1" THEN FanConfig(HwA, CurveA) ELSE FanConfig(HwB, CurveA)]

OtherFan == [n \in {"fan_2"} |-> FanConfig(HwB, CurveB)]

InitConfigs == {OneFan, TwoFans}

ConfigInputs == {OneFan, OneFanCurve, OneFanRemapped, TwoFans, OtherFan, EmptyFans}

Entries(fans) == { <<n, fans[n]>> : n \in DOMAIN fans }

\* Option<T>: Some(x) and None.
Some(x) == <<x>>

None == <<>>

----------------------------------------------------------------------------
(* Hardware mapping fingerprint *)

\* A faulty fingerprint that also takes the curve.
extract_hw_map_with_steps(fans) ==
    [n \in DOMAIN fans |->
        <<fans[n].sensor_name, fans[n].sensor_input, fans[n].pwm_name, fans[n].pwm_input,
          fans[n].steps>>]

extract_hw_map(fans) ==
    [n \in DOMAIN fans |->
        <<fans[n].sensor_name, fans[n].sensor_input, fans[n].pwm_name, fans[n].pwm_input>>]

----------------------------------------------------------------------------
(* Curve evaluator: get_fan_power *)

\* Rust integer division truncates toward zero.
TruncDiv(a, b) ==
    IF a >= 0 THEN a \div b ELSE -((-a) \div b)

\* A faulty rounding: the fraction is cut off.
RoundTruncated(num, den) ==
    IF num >= 0 THEN num \div den ELSE -((-num) \div den)

\* f32::round of num/den (den > 0): nearest integer, halves away from zero.
RoundHalfAway(num, den) ==
    IF num >= 0 THEN (2 * num + den) \div (2 * den)
    ELSE -((2 * (-num) + den) \div (2 * den))

\* `as u8` on a float saturates.
SaturateU8(x) ==
    IF x < 0 THEN 0 ELSE IF x > 255 THEN 255 ELSE x

\* One insertion of the stable sort: s goes after every step with temp <= s.temp.
InsertStep(sorted, s) ==
    LET k == Cardinality({i \in 1..Len(sorted) : sorted[i].temp <= s.temp})
    IN SubSeq(sorted, 1, k) \o <<s>> \o SubSeq(sorted, k + 1, Len(sorted))

RECURSIVE SortPrefix(_, _)
SortPrefix(steps, n) ==
    IF n = 0 THEN <<>> ELSE InsertStep(SortPrefix(steps, n - 1), steps[n])

\* A faulty evaluator that takes the steps in the order given.
SortSkipped(steps) ==
    steps

\* sorted_steps.sort_by_key(|step| step.temp): a stable sort.
SortByTemp(steps) ==
    SortPrefix(steps, Len(steps))

\* The linear interpolation of the bracketing loop, in f32, rounded and cast to u8.
Interpolate(cur, nxt, temp) ==
    LET temp_diff == nxt.temp - cur.temp
        power_diff == nxt.power - cur.power
        temp_offset == temp - cur.temp
    IN IF temp_diff = 0
       THEN 0   \* 0.0 / 0.0 is NaN, and NaN as u8 is 0
       ELSE SaturateU8(RoundHalfAway(cur.power * temp_diff + power_diff * temp_offset, temp_diff))

\* min_by_key(|step| (step.temp - temp).abs()): the first step at minimum distance.
Dist(a, b) ==
    IF a >= b THEN a - b ELSE b - a

ClosestStep(sorted, temp) ==
    LET best == CHOOSE i \in 1..Len(sorted) :
                    /\ \A j \in 1..Len(sorted) : Dist(sorted[i].temp, temp) <= Dist(sorted[j].temp, temp)
                    /\ \A j \in 1..(i - 1) : Dist(sorted[j].temp, temp) > Dist(sorted[i].temp, temp)
    IN sorted[best]

\* A faulty lower clamp that lets a temperature equal to the lowest step through.
below_lowest_strict(temp, lowest) ==
    temp < lowest.temp

\* `temp <= sorted_steps[0].temp`
below_lowest(temp, lowest) ==
    temp <= lowest.temp

\* A faulty bracket test that leaves the breakpoints themselves out.
in_bracket_open(temp, current_step, next_step) ==
    temp > current_step.temp /\ temp < next_step.temp

\* `temp >= current_step.temp && temp <= next_step.temp`
in_bracket(temp, current_step, next_step) ==
    temp >= current_step.temp /\ temp <= next_step.temp

\* get_fan_power with the branch it returned from.
get_fan_power_ret(steps, temp) ==
    IF steps = <<>> THEN [power |-> 0, branch |-> "empty", at |-> 0]
    ELSE LET sorted == SortByTemp(steps)
             n == Len(sorted)
             hits == {i \in 1..(n - 1) : in_bracket(temp, sorted[i], sorted[i + 1])}
         IN IF below_lowest(temp, sorted[1])
            THEN [power |-> sorted[1].power, branch |-> "low", at |-> 1]
            ELSE IF temp >= sorted[n].temp
            THEN [power |-> sorted[n].power, branch |-> "high", at |-> n]
            ELSE IF hits # {}
            THEN LET i == CHOOSE h \in hits : \A g \in hits : h <= g
                 IN [power |-> Interpolate(sorted[i], sorted[i + 1], temp),
                     branch |-> "interpolate", at |-> i]
            ELSE [power |-> ClosestStep(sorted, temp).power, branch |-> "fallback", at |-> 0]

get_fan_power(steps, temp) ==
    get_fan_power_ret(steps, temp).power

----------------------------------------------------------------------------
(* PWM actuator *)

\* set_fan_power: the value written to the PWM file (u32 arithmetic, integer division).
pwm_value(power) ==
    (power * 255) \div 100

EnableText(enable) ==
    IF enable THEN "1" ELSE "0"

\* A faulty check that takes a file it cannot read for an enabled one.
check_pwm_enable_unreadable_enabled(content) ==
    content \in {"1", "unreadable"}

\* check_pwm_enable on the enable file's content ("unreadable": the read fails).
check_pwm_enable(content) ==
    content = "1"

\* set_pwm_enable: what the enable file may hold once the write returned. A device
\* of kind "immediate" reflects the write, "never" ignores it, "async" may do either,
\* and on none of them does a write make an unreadable file readable; "created" is
\* a path outside sysfs where `write` creates the missing file.
set_pwm_enable(kind, content, enable) ==
    IF kind = "created" THEN {EnableText(enable)}
    ELSE IF content = "unreadable" THEN {content}
    ELSE IF kind = "immediate" THEN {EnableText(enable)}
    ELSE IF kind = "never" THEN {content}
    ELSE {content, EnableText(enable)}

\* set_pwm_enable_with_retry run to its end: the contents the enable file may hold
\* when it returns, from any of `contents`, with n attempts left.
RECURSIVE RetryFinals(_, _, _, _)
RetryFinals(contents, kind, enable, n) ==
    LET done == {c \in contents : check_pwm_enable(c) = enable}
        more == contents \ done
    IN IF n = 0 \/ more = {} THEN contents
       ELSE done \cup RetryFinals(UNION {set_pwm_enable(kind, c, enable) : c \in more},
                                  kind, enable, n - 1)

DeviceKinds == {"immediate", "never", "async", "created"}

EnableContents == {"0", "1", "unreadable"}

\* set_pwm_enable_with_retry for every device, content and desired mode, computed once.
RetryTable ==
    [kind \in DeviceKinds, content \in EnableContents, enable \in BOOLEAN |->
        RetryFinals({content}, kind, enable, MaxAttempts)]

set_pwm_enable_with_retry(kind, content, enable) ==
    RetryTable[kind, content, enable]

----------------------------------------------------------------------------
(* Controller facade *)

\* A faulty update_config that stores the new entries over the old map.
update_config_merge(cfg, new_config) ==
    [n \in DOMAIN cfg \cup DOMAIN new_config |->
        IF n \in DOMAIN new_config THEN new_config[n] ELSE cfg[n]]

\* update_config: `*cfg = new_config` under the write lock.
update_config(cfg, new_config) ==
    new_config

\* A faulty stop that flips the flag.
stop_toggle ==
    running' = ~running

\* stop: running.store(false).
stop ==
    running' = FALSE

\* What a sensor read may give: a failed read, text that is no integer, millidegrees.
SensorReads ==
    { [status |-> "unreadable", value |-> 0],
      [status |-> "garbage", value |-> 0],
      [status |-> "ok", value |-> 45000] }

----------------------------------------------------------------------------
(* Initial state: FanController::new(config), run() not yet started *)

NoRetry ==
    [pc |-> "idle", kind |-> "immediate", initial |-> "0", content |-> "0",
     enable |-> FALSE, attempt |-> 0, writes |-> 0]

NoCurve ==
    [pc |-> "idle", steps |-> <<>>, temp |-> 0, ret |-> [power |-> 0, branch |-> "none", at |-> 0]]

NoPwmOut ==
    [pc |-> "idle", power |-> 0, written |-> -1]

\* The HTTP workers that run the handlers.
Workers == {1, 2}

NoResponse ==
    [status |-> "none", success |-> FALSE, data |-> <<>>, saved |-> "no"]

NoRequest ==
    [pc |-> "idle", op |-> "none", name |-> "", body |-> <<>>, clone |-> EmptyFans,
     response |-> NoResponse]

\* No request received yet.
ApiIdle ==
    /\ handler = [w \in Workers |-> NoRequest]
    /\ mutex = 0
    /\ config_json = EmptyFans
    /\ requests = 0

NoStartup ==
    [pc |-> "idle", file |-> "ok", raw |-> EmptyFans, hwmon |-> <<>>, ret |-> EmptyFans]

NoParse ==
    [pc |-> "idle", fields |-> <<>>, seps |-> <<>>, input |-> <<>>,
     ret |-> [is_ok |-> FALSE, steps |-> <<>>, error |-> "none"], sent |-> FALSE]

\* No create_config call and no CLI command followed.
CliIdle ==
    /\ startup = NoStartup
    /\ parse = NoParse

Init ==
    /\ config \in InitConfigs
    /\ running = TRUE
    /\ pc = "start"
    /\ fans_to_process = EmptyFans
    /\ last_hw_map = EmptyFans
    /\ guard = FALSE
    /\ passDone = {}
    /\ cleaned = {}
    /\ inited = {}
    /\ actuated = {}
    /\ unread = {}
    /\ pwm_failed = {}
    /\ iterPasses = <<>>
    /\ iter_hw_map = EmptyFans
    /\ pwm_enable = [p \in PwmPaths |-> "0"]
    /\ mgmt_pc = "idle"
    /\ mgmt_new = EmptyFans
    /\ written = {config}
    /\ stops = 0
    /\ updates = 0
    /\ server = "binding"
    /\ retry = NoRetry
    /\ curve = NoCurve
    /\ pwm_out = NoPwmOut
    /\ ApiIdle
    /\ CliIdle

----------------------------------------------------------------------------
(* The control loop: FanController::run *)

\* init_fans: `let config_guard = self.config.read().unwrap()`.
init_fans_lock ==
    /\ pc \in {"start", "reinit"}
    /\ guard' = TRUE
    /\ passDone' = {}
    /\ inited' = {}
    /\ pc' = IF pc = "start" THEN "init_fans" ELSE "reinit_fans"
    /\ iterPasses' = IF pc = "reinit" THEN Append(iterPasses, "enable") ELSE iterPasses
    /\ UNCHANGED <<config, running, fans_to_process, last_hw_map, cleaned, actuated, unread, pwm_failed,
                   iter_hw_map, pwm_enable, mgmt_pc, mgmt_new, written, stops, updates,
                   server, callVars>>

\* init_fans: one turn of `for (name, fan) in &config_guard.fan`.
init_fans_step ==
    /\ pc \in {"init_fans", "reinit_fans"}
    /\ \E name \in DOMAIN config \ passDone :
         LET fan == config[name] IN
         \E c \in set_pwm_enable_with_retry("async", pwm_enable[fan.pwm_input], TRUE) :
            /\ pwm_enable' = [pwm_enable EXCEPT ![fan.pwm_input] = c]
            /\ inited' = inited \cup {<<name, fan>>}
            /\ passDone' = passDone \cup {name}
    /\ UNCHANGED <<config, running, pc, fans_to_process, last_hw_map, guard, cleaned,
                   actuated, unread, pwm_failed, iterPasses, iter_hw_map, mgmt_pc, mgmt_new, written,
                   stops, updates,
                   server, callVars>>

\* The fingerprint run() records after a re-initialization: `last_hw_map = current_hw_map`.
recorded_hw_map ==
    extract_hw_map(fans_to_process)

\* init_fans returns (the guard is dropped); after a re-initialization run() records
\* the fingerprint and goes on to the iteration's for loop.
init_fans_unlock ==
    /\ pc \in {"init_fans", "reinit_fans"}
    /\ DOMAIN config \subseteq passDone
    /\ guard' = FALSE
    /\ passDone' = {}
    /\ IF pc = "init_fans"
       THEN pc' = "capture" /\ UNCHANGED last_hw_map
       ELSE pc' = "poll" /\ last_hw_map' = recorded_hw_map
    /\ UNCHANGED <<config, running, fans_to_process, cleaned, inited, actuated, unread, pwm_failed,
                   iterPasses, iter_hw_map, pwm_enable, mgmt_pc, mgmt_new, written,
                   stops, updates,
                   server, callVars>>

\* `let last_config = ...fan.clone(); let mut last_hw_map = extract_hw_map(&last_config)`.
capture_last_config ==
    /\ pc = "capture"
    /\ last_hw_map' = extract_hw_map(config)
    /\ pc' = "check"
    /\ UNCHANGED <<config, running, fans_to_process, guard, passDone, cleaned, inited,
                   actuated, unread, pwm_failed, iterPasses, iter_hw_map, pwm_enable, mgmt_pc, mgmt_new,
                   written, stops, updates,
                   server, callVars>>

\* A faulty check that goes on with the loop whatever the flag says.
check_target_ignoring_flag ==
    "snapshot"

\* Where the check of the flag leads: on into the iteration, or `break`.
check_target ==
    IF running THEN "snapshot" ELSE "shutdown"

\* `if !self.running.load(..) { break; }`
check_running ==
    /\ pc = "check"
    /\ pc' = check_target
    /\ UNCHANGED <<config, running, fans_to_process, last_hw_map, guard, passDone,
                   cleaned, inited, actuated, unread, pwm_failed, iterPasses, iter_hw_map, pwm_enable,
                   mgmt_pc, mgmt_new, written, stops, updates,
                   server, callVars>>

\* `current_hw_map != last_hw_map`
hw_map_changed(current_hw_map, last) ==
    current_hw_map # last

\* A faulty snapshot that keeps the fans of the iteration before.
snapshot_source_stale ==
    fans_to_process

\* `guard.fan.clone()`: the fans of the Config behind the lock.
snapshot_source ==
    config

\* The snapshot of the iteration and the comparison of its fingerprint.
snapshot ==
    /\ pc = "snapshot"
    /\ fans_to_process' = snapshot_source
    /\ iter_hw_map' = last_hw_map
    /\ iterPasses' = <<>>
    /\ actuated' = {}
    /\ unread' = {}
    /\ pwm_failed' = {}
    /\ passDone' = {}
    /\ pc' = IF hw_map_changed(extract_hw_map(config), last_hw_map) THEN "cleanup" ELSE "poll"
    /\ UNCHANGED <<config, running, last_hw_map, guard, cleaned, inited, pwm_enable,
                   mgmt_pc, mgmt_new, written, stops, updates,
                   server, callVars>>

\* cleanup_fans: `let config_guard = self.config.read().unwrap()`.
cleanup_fans_lock ==
    /\ pc \in {"cleanup", "shutdown"}
    /\ guard' = TRUE
    /\ passDone' = {}
    /\ cleaned' = {}
    /\ pc' = IF pc = "cleanup" THEN "cleanup_fans" ELSE "shutdown_fans"
    /\ iterPasses' = IF pc = "cleanup" THEN Append(iterPasses, "disable") ELSE iterPasses
    /\ UNCHANGED <<config, running, fans_to_process, last_hw_map, inited, actuated, unread, pwm_failed,
                   iter_hw_map, pwm_enable, mgmt_pc, mgmt_new, written, stops, updates,
                   server, callVars>>

\* A faulty cleanup_fans that walks the iteration's snapshot.
cleanup_source_snapshot ==
    fans_to_process

\* The fans cleanup_fans walks: those of the Config behind the lock.
cleanup_source ==
    config

\* cleanup_fans: one turn of `for (name, fan) in &config_guard.fan`.
cleanup_fans_step ==
    /\ pc \in {"cleanup_fans", "shutdown_fans"}
    /\ \E name \in DOMAIN cleanup_source \ passDone :
         LET fan == cleanup_source[name] IN
         \E c \in set_pwm_enable_with_retry("async", pwm_enable[fan.pwm_input], FALSE) :
            /\ pwm_enable' = [pwm_enable EXCEPT ![fan.pwm_input] = c]
            /\ cleaned' = cleaned \cup {<<name, fan>>}
            /\ passDone' = passDone \cup {name}
    /\ UNCHANGED <<config, running, pc, fans_to_process, last_hw_map, guard, inited,
                   actuated, unread, pwm_failed, iterPasses, iter_hw_map, mgmt_pc, mgmt_new, written,
                   stops, updates,
                   server, callVars>>

\* cleanup_fans returns (the guard is dropped): on to init_fans, or "Shutdown complete.".
cleanup_fans_unlock ==
    /\ pc \in {"cleanup_fans", "shutdown_fans"}
    /\ DOMAIN cleanup_source \subseteq passDone
    /\ guard' = FALSE
    /\ passDone' = {}
    /\ pc' = IF pc = "cleanup_fans" THEN "reinit" ELSE "stopped"
    /\ UNCHANGED <<config, running, fans_to_process, last_hw_map, cleaned, inited,
                   actuated, unread, pwm_failed, iterPasses, iter_hw_map, pwm_enable, mgmt_pc, mgmt_new,
                   written, stops, updates,
                   server, callVars>>

\* A faulty read that takes text that is no integer as zero.
sensor_temp_lenient(r) ==
    IF r.status = "unreadable" THEN None ELSE Some(TruncDiv(r.value, 1000))

\* `read_to_string(..)` and `trim().parse::<i32>()` both Ok: `temp / 1000`.
sensor_temp(r) ==
    IF r.status = "ok" THEN Some(TruncDiv(r.value, 1000)) ELSE None

\* One turn of `for (name, fan) in &fans_to_process`: read the sensor, evaluate,
\* actuate; the write of set_fan_power succeeds, or fails and is only reported.
poll_step ==
    /\ pc = "poll"
    /\ \E name \in DOMAIN fans_to_process \ passDone, r \in SensorReads, success \in BOOLEAN :
         LET fan == fans_to_process[name]
             temp == sensor_temp(r)
         IN /\ passDone' = passDone \cup {name}
            /\ actuated' = IF temp # None
                           THEN actuated \cup
                                {<<name, fan, pwm_value(get_fan_power(fan.steps, temp[1]))>>}
                           ELSE actuated
            /\ unread' = IF r.status = "ok" THEN unread ELSE unread \cup {name}
            /\ pwm_failed' = IF temp # None /\ ~success
                             THEN pwm_failed \cup {name} ELSE pwm_failed
    /\ UNCHANGED <<config, running, pc, fans_to_process, last_hw_map, guard, cleaned,
                   inited, iterPasses, iter_hw_map, pwm_enable, mgmt_pc, mgmt_new,
                   written, stops, updates,
                   server, callVars>>

\* The for loop is over: `thread::sleep(Duration::from_secs(5))` begins. The write
\* errors of the pass were only printed: nothing of them is kept.
poll_done ==
    /\ pc = "poll"
    /\ DOMAIN fans_to_process \subseteq passDone
    /\ pc' = "sleep"
    /\ pwm_failed' = {}
    /\ UNCHANGED <<config, running, fans_to_process, last_hw_map, guard, passDone,
                   cleaned, inited, actuated, unread, iterPasses, iter_hw_map, pwm_enable,
                   mgmt_pc, mgmt_new, written, stops, updates,
                   server, callVars>>

\* The sleep is over: back to the top of `loop`.
sleep_done ==
    /\ pc = "sleep"
    /\ pc' = "check"
    /\ UNCHANGED <<config, running, fans_to_process, last_hw_map, guard, passDone,
                   cleaned, inited, actuated, unread, pwm_failed, iterPasses, iter_hw_map, pwm_enable,
                   mgmt_pc, mgmt_new, written, stops, updates,
                   server, callVars>>

LoopNext ==
    \/ init_fans_lock
    \/ init_fans_step
    \/ init_fans_unlock
    \/ capture_last_config
    \/ check_running
    \/ snapshot
    \/ cleanup_fans_lock
    \/ cleanup_fans_step
    \/ cleanup_fans_unlock
    \/ poll_step
    \/ poll_done
    \/ sleep_done

----------------------------------------------------------------------------
(* Management interface and interrupt handler *)

\* run_daemon returns, and the process exits, once either branch of its
\* tokio::select! is ready: the daemon thread has ended ("stopped"), or the
\* start_api future has (the loop thread is then "killed" wherever it was).
process_alive ==
    pc \notin {"stopped", "killed"}

\* start_api: `.bind(("127.0.0.1", port))?` succeeds and the server runs.
start_api_bound ==
    /\ process_alive
    /\ server = "binding"
    /\ server' = "serving"
    /\ UNCHANGED <<config, running, pc, fans_to_process, last_hw_map, guard, passDone,
                   cleaned, inited, actuated, unread, pwm_failed, iterPasses, iter_hw_map, pwm_enable,
                   mgmt_pc, mgmt_new, written, stops, updates, callVars>>

\* start_api: the bind fails, `?` returns the error, the select! in run_daemon
\* takes its first branch and the process ends with the loop thread in it.
start_api_bind_failed ==
    /\ process_alive
    /\ server = "binding"
    /\ server' = "failed"
    /\ pc' = "killed"
    /\ UNCHANGED <<config, running, fans_to_process, last_hw_map, guard, passDone,
                   cleaned, inited, actuated, unread, pwm_failed, iterPasses, iter_hw_map, pwm_enable,
                   mgmt_pc, mgmt_new, written, stops, updates, callVars>>

\* A handler that replaces the Config (PUT /config; PUT and DELETE /fans/{name}
\* and POST /fans with the Config they built): it holds the controller mutex and
\* calls update_config, whose `self.config.write()` waits for as long as a read
\* guard is held.
api_update_config ==
    /\ process_alive
    /\ server = "serving"
    /\ mgmt_pc = "idle"
    /\ updates < MaxUpdates
    /\ \E new_config \in ConfigInputs :
         /\ written' = written \cup {new_config}
         /\ IF guard
            THEN /\ mgmt_pc' = "write_wait"
                 /\ mgmt_new' = new_config
                 /\ UNCHANGED config
            ELSE /\ config' = update_config(config, new_config)
                 /\ UNCHANGED <<mgmt_pc, mgmt_new>>
    /\ updates' = updates + 1
    /\ UNCHANGED <<running, pc, fans_to_process, last_hw_map, guard, passDone, cleaned,
                   inited, actuated, unread, pwm_failed, iterPasses, iter_hw_map, pwm_enable, stops,
                   server, callVars>>

\* The write lock is granted: `*cfg = new_config`, and the handler goes on.
api_update_config_write ==
    /\ process_alive
    /\ server = "serving"
    /\ mgmt_pc = "write_wait"
    /\ ~guard
    /\ config' = update_config(config, mgmt_new)
    /\ mgmt_pc' = "idle"
    /\ mgmt_new' = EmptyFans
    /\ UNCHANGED <<running, pc, fans_to_process, last_hw_map, guard, passDone, cleaned,
                   inited, actuated, unread, pwm_failed, iterPasses, iter_hw_map, pwm_enable, written,
                   stops, updates,
                   server, callVars>>

\* POST /stop: takes the controller mutex and calls stop().
api_stop_daemon ==
    /\ process_alive
    /\ server = "serving"
    /\ mgmt_pc = "idle"
    /\ stops < MaxStops
    /\ stop
    /\ stops' = stops + 1
    /\ UNCHANGED <<config, pc, fans_to_process, last_hw_map, guard, passDone, cleaned,
                   inited, actuated, unread, pwm_failed, iterPasses, iter_hw_map, pwm_enable, mgmt_pc,
                   mgmt_new, written, updates,
                   server, callVars>>

\* The Ctrl+C handler: running_clone.store(false).
ctrlc_handler ==
    /\ process_alive
    /\ stops < MaxStops
    /\ running' = FALSE
    /\ stops' = stops + 1
    /\ UNCHANGED <<config, pc, fans_to_process, last_hw_map, guard, passDone, cleaned,
                   inited, actuated, unread, pwm_failed, iterPasses, iter_hw_map, pwm_enable, mgmt_pc,
                   mgmt_new, written, updates,
                   server, callVars>>

\* POST /start: answers "not implemented" and touches nothing.
api_start_daemon ==
    /\ process_alive
    /\ server = "serving"
    /\ UNCHANGED vars

MgmtNext ==
    \/ start_api_bound
    \/ start_api_bind_failed
    \/ api_update_config
    \/ api_update_config_write
    \/ api_stop_daemon
    \/ ctrlc_handler
    \/ api_start_daemon

Next ==
    \/ LoopNext
    \/ MgmtNext

Spec ==
    Init /\ [][Next]_vars

\* The steps of the behaviours checked for liveness: the port is bound, and at
\* most MaxLiveUpdates replacements are made.
LiveNext ==
    \/ LoopNext
    \/ start_api_bound
    \/ updates < MaxLiveUpdates /\ api_update_config
    \/ api_update_config_write
    \/ api_stop_daemon
    \/ ctrlc_handler
    \/ api_start_daemon

\* The control loop is a thread of its own: it keeps taking steps.
SpecLive ==
    Init /\ [][LiveNext]_vars /\ WF_vars(LoopNext)

\* The loop thread and the handler's thread are both scheduled: a writer that
\* could take the lock from some point on takes it.
SpecLiveApi ==
    Init /\ [][LiveNext]_vars /\ WF_vars(LoopNext) /\ WF_vars(api_update_config_write)

----------------------------------------------------------------------------
(* Properties of the control loop and the facade *)

\* The hardware mapping of a <<name, fan>> entry handed to the actuator.
HwOf(entry) ==
    <<entry[1], <<entry[2].sensor_name, entry[2].sensor_input, entry[2].pwm_name,
                  entry[2].pwm_input>>>>

\* fans and the fingerprint hw name the same fans with the same sensor and PWM
\* names and paths.
SameMapping(fans, hw) ==
    /\ DOMAIN fans = DOMAIN hw
    /\ \A n \in DOMAIN fans :
         /\ fans[n].sensor_name = hw[n][1]
         /\ fans[n].sensor_input = hw[n][2]
         /\ fans[n].pwm_name = hw[n][3]
         /\ fans[n].pwm_input = hw[n][4]

\* C1: on a hardware-mapping change, the re-initialization has called
\* set_pwm_enable_with_retry(fan, false) for every fan of the previous mapping
\* (the recorded fingerprint) when its disable pass is over, and
\* set_pwm_enable_with_retry(fan, true) for every fan of the new mapping when it
\* records the new fingerprint.
C1_ReinitDisablesPreviousMapping ==
    /\ pc = "reinit" =>
         \A n \in DOMAIN last_hw_map : <<n, last_hw_map[n]>> \in {HwOf(e) : e \in cleaned}
    /\ (pc = "poll" /\ iterPasses = <<"disable", "enable">>) =>
         \A n \in DOMAIN last_hw_map : <<n, last_hw_map[n]>> \in {HwOf(e) : e \in inited}

\* C2: an iteration whose snapshot has the mapping of the recorded fingerprint
\* (a curve-only edit, or no edit) runs no disable or enable pass; an iteration
\* whose snapshot's mapping differs runs one disable pass, then one enable pass.
C2_ToggleOnlyOnMappingChange ==
    pc \in {"poll", "sleep"} =>
        IF SameMapping(fans_to_process, iter_hw_map)
        THEN iterPasses = <<>>
        ELSE iterPasses = <<"disable", "enable">>

\* A curve-only edit of the initialized Config went through an iteration untoggled.
C2_Witness ==
    /\ pc = "sleep"
    /\ inited = Entries(OneFan)
    /\ fans_to_process = OneFanCurve
    /\ iterPasses = <<>>

\* C3: the loop never holds the read guard on the Config while hardware I/O (a
\* set_pwm_enable_with_retry call, with its 300 ms waits) is still to be done and
\* an update_config is waiting for the write lock.
C3_NoLockDuringIO ==
    ~(guard /\ mgmt_pc = "write_wait" /\ DOMAIN config \ passDone # {})

\* C4: every read sees a whole Config given to FanController::new or
\* update_config: the stored Config, the loop's snapshot, and the fans walked by
\* one init_fans or cleanup_fans pass.
C4_ReadsSeeWholeConfig ==
    /\ config \in written
    /\ pc \in {"cleanup", "cleanup_fans", "reinit", "reinit_fans", "poll", "sleep"}
         => fans_to_process \in written
    /\ \E c \in written : inited \subseteq Entries(c)
    /\ \E c \in written : cleaned \subseteq Entries(c)
    /\ pc \notin {"start", "init_fans", "reinit_fans", "killed"} =>
         \E c \in written : inited = Entries(c)
    /\ pc \in {"reinit", "reinit_fans", "stopped"} => \E c \in written : cleaned = Entries(c)

\* A pass is under way over a two-fan Config while a replacement waits for the lock.
C4_Witness ==
    /\ pc = "reinit_fans"
    /\ mgmt_pc = "write_wait"
    /\ Cardinality(inited) = 1
    /\ Cardinality(DOMAIN config) = 2
    /\ mgmt_new # config

\* The state of the program: everything but the model's records of past calls.
programState ==
    <<config, running, pc, fans_to_process, last_hw_map, guard, passDone, pwm_enable,
      mgmt_pc, mgmt_new>>

\* C5: the running flag starts true and, once false, is never true again, whatever
\* stop requests, interrupts, replacements and POST /start follow; a stop request
\* made with the flag already false changes nothing.
C5_RunningMonotonic ==
    /\ running = TRUE
    /\ [][/\ running = FALSE => running' = FALSE
          /\ (running = FALSE /\ stops' # stops) => programState' = programState]_vars

\* A second stop request was made with the flag already false.
C5_Witness ==
    ~running /\ stops = 2 /\ updates > 0

SensorDegrees ==
    TruncDiv((CHOOSE r \in SensorReads : r.status = "ok").value, 1000)

\* entry is a set_fan_power call for a fan of fans, with that fan's paths and the
\* power of its steps.
ActuationOf(fans, entry) ==
    /\ entry[1] \in DOMAIN fans
    /\ entry[2] = fans[entry[1]]
    /\ entry[3] = pwm_value(get_fan_power(fans[entry[1]].steps, SensorDegrees))

\* C11: a polling iteration that starts after update_config(C) completed takes
\* C as its snapshot, its for loop takes every fan of C and no other, every
\* set_fan_power of the iteration is for a fan of C with C's paths and the power of
\* C's steps, and every fan of C whose sensor could be read gets one; the
\* replacement itself leaves the loop where it is and the iteration under way on
\* its own snapshot, and the loop ends only on a cleared running flag.
C11_NextIterationReflectsConfig ==
    [][/\ (pc = "snapshot" /\ pc' \in {"cleanup", "poll"}) => fans_to_process' = config
       /\ (pc = "poll" /\ pc' = "sleep") =>
             /\ passDone = DOMAIN fans_to_process
             /\ \A e \in actuated : ActuationOf(fans_to_process, e)
             /\ {e[1] : e \in actuated} = DOMAIN fans_to_process \ unread
       /\ config' # config =>
             /\ config' \in written'
             /\ pc' = pc
             /\ fans_to_process' = fans_to_process
             /\ running' = running
       /\ pc' = "shutdown" => ~running]_vars

\* The loop started with one fan; an iteration that began after the replacement
\* by two fans actuated both of them.
C11_Witness ==
    /\ pc = "sleep"
    /\ updates > 0
    /\ OneFan \in written
    /\ config = TwoFans
    /\ fans_to_process = TwoFans
    /\ {e[1] : e \in actuated} = FanNames

\* C12: the process exits only with the running flag false: neither the
\* management server failing to bind its port, nor an I/O or persistence error.
C12_ExitOnlyAfterStop ==
    ~process_alive => ~running

\* The fingerprint as the set of its <<name, mapping>> entries.
HwEntries(hw) ==
    { <<n, hw[n]>> : n \in DOMAIN hw }

\* C19: outside a (re)initialization the fingerprint the loop holds is the
\* hardware mapping of the fans the most recent init_fans pass gave to
\* set_pwm_enable_with_retry(fan, true), and every set_fan_power of an iteration is
\* for a fan, with its mapping, that this pass enabled.
C19_FingerprintMatchesInited ==
    /\ pc \in {"check", "snapshot", "cleanup", "cleanup_fans", "poll", "sleep",
               "shutdown", "shutdown_fans", "stopped"} =>
         HwEntries(last_hw_map) = {HwOf(e) : e \in inited}
    /\ pc \in {"poll", "sleep"} =>
         \A a \in actuated : HwOf(<<a[1], a[2]>>) \in {HwOf(e) : e \in inited}

\* C20: when the loop is Stopped, every PWM file the most recent init_fans pass
\* tried to put under manual control, and so every fan enabled during the
\* lifetime and not disabled since, was given to
\* set_pwm_enable_with_retry(fan, false) by the shutdown pass, fans removed from
\* the Config or remapped meanwhile included.
C20_EnabledFansDisabledAtStop ==
    pc = "stopped" =>
        {e[2].pwm_input : e \in inited} \subseteq {c[2].pwm_input : c \in cleaned}

\* C24: no state but Stopped is a deadlock: while the process lives the loop
\* thread has a step to take, whatever the handlers hold or wait for, and every
\* update_config call that waits for the write lock gets it and completes.
C24_UpdateConfigCompletes ==
    /\ [](process_alive => ENABLED LoopNext)
    /\ (mgmt_pc = "write_wait" ~> mgmt_pc = "idle")

\* The set_fan_power calls of the current iteration for the fan called name.
CallsFor(name) == { a \in actuated : a[1] = name }

\* C21: in a polling iteration a fan whose sensor file is unreadable or holds no
\* integer gets no set_fan_power call, every other fan the for loop has taken
\* gets one with the power of its steps, a step whose PWM write fails leaves the
\* running flag alone and stays in the for loop, and a pass with an unread
\* sensor or a failed write goes on to the next check of the running flag.
C21_FailedFanSkipped ==
    /\ [](\A name \in unread : CallsFor(name) = {})
    /\ [](pc \in {"poll", "sleep"} =>
            \A name \in passDone \ unread :
                \E a \in CallsFor(name) : ActuationOf(fans_to_process, a))
    /\ [][pwm_failed' # pwm_failed /\ pwm_failed' # {} =>
            /\ running' = running
            /\ pc' = "poll"
            /\ \E name \in pwm_failed' \ pwm_failed : CallsFor(name)' # {}]_vars
    /\ ((pc = "poll" /\ (unread # {} \/ pwm_failed # {})) ~> (pc = "check"))

\* The for loop of a two-fan snapshot is over: one sensor could not be read, the
\* other fan was actuated and its PWM write failed.
C21_Witness ==
    /\ pc = "poll"
    /\ passDone = DOMAIN fans_to_process
    /\ \E n \in unread, m \in pwm_failed :
         /\ n # m
         /\ passDone = {n, m}
         /\ CallsFor(m) # {}

\* The positions of the loop from `break` on.
AfterBreak == {"shutdown", "shutdown_fans", "stopped"}

\* C22: with the running flag false the loop starts no new polling iteration:
\* the check of the flag leads to the shutdown path, an iteration starts only
\* from a check that saw the flag true, the for loop is entered only from the
\* snapshot of that iteration or its re-initialisation, within an iteration a
\* fan gets at most one set_fan_power call, and from `break` on the loop comes
\* back to no iteration.
C22_NoIterationAfterStop ==
    [][/\ (pc = "check" /\ ~running /\ pc' # pc) => pc' \in {"shutdown", "killed"}
       /\ (pc' = "snapshot" /\ pc # "snapshot") => (running /\ pc = "check")
       /\ (pc' = "poll" /\ pc # "poll") => pc \in {"snapshot", "reinit_fans"}
       /\ actuated' # actuated /\ actuated' # {} =>
             /\ pc = "poll"
             /\ \E name \in DOMAIN fans_to_process \ passDone :
                  /\ name \in passDone'
                  /\ CallsFor(name) = {}
                  /\ actuated' \ actuated = CallsFor(name)'
                  /\ Cardinality(CallsFor(name)') = 1
       /\ pc \in AfterBreak => pc' \in AfterBreak \cup {"killed"}
       /\ \A name \in DOMAIN fans_to_process : Cardinality(CallsFor(name)) <= 1]_vars

\* The flag was cleared while an iteration was in progress: the iteration
\* actuated a fan, and the check that followed took the loop to `break`.
C22_Witness ==
    /\ pc = "shutdown"
    /\ ~running
    /\ actuated # {}

----------------------------------------------------------------------------
(* One set_pwm_enable_with_retry call, attempt by attempt *)

\* The control loop as its thread is created: no step of run() taken yet.
LoopIdle ==
    /\ config = EmptyFans
    /\ running = TRUE
    /\ pc = "start"
    /\ fans_to_process = EmptyFans
    /\ last_hw_map = EmptyFans
    /\ guard = FALSE
    /\ passDone = {}
    /\ cleaned = {}
    /\ inited = {}
    /\ actuated = {}
    /\ unread = {}
    /\ pwm_failed = {}
    /\ iterPasses = <<>>
    /\ iter_hw_map = EmptyFans
    /\ pwm_enable = [p \in PwmPaths |-> "0"]
    /\ mgmt_pc = "idle"
    /\ mgmt_new = EmptyFans
    /\ written = {EmptyFans}
    /\ stops = 0
    /\ updates = 0
    /\ server = "serving"

RetryInit ==
    /\ LoopIdle
    /\ ApiIdle
    /\ CliIdle
    /\ curve = NoCurve
    /\ pwm_out = NoPwmOut
    /\ \E kind \in DeviceKinds, content \in EnableContents, enable \in BOOLEAN :
         retry = [pc |-> "check", kind |-> kind, initial |-> content, content |-> content,
                  enable |-> enable, attempt |-> 0, writes |-> 0]

\* A faulty loop bound: one attempt too many.
retry_exhausted_late(attempt) ==
    attempt > MaxAttempts

\* `for _ in 0..10`: the range is used up.
retry_exhausted(attempt) ==
    attempt >= MaxAttempts

\* The head of the for loop and `if check_pwm_enable(fan) == enable { break; }`.
retry_check ==
    /\ retry.pc = "check"
    /\ retry' = [retry EXCEPT !.pc =
                    IF retry_exhausted(retry.attempt) THEN "gave_up"
                    ELSE IF check_pwm_enable(retry.content) = retry.enable THEN "done"
                    ELSE "write"]
    /\ UNCHANGED <<loopVars, curve, pwm_out, apiVars, cliVars>>

\* `set_pwm_enable(fan, enable)`.
retry_write ==
    /\ retry.pc = "write"
    /\ \E c \in set_pwm_enable(retry.kind, retry.content, retry.enable) :
         retry' = [retry EXCEPT !.pc = "sleep", !.content = c, !.writes = @ + 1]
    /\ UNCHANGED <<loopVars, curve, pwm_out, apiVars, cliVars>>

\* `thread::sleep(Duration::from_millis(300))`, then the next turn of the loop.
retry_sleep ==
    /\ retry.pc = "sleep"
    /\ retry' = [retry EXCEPT !.pc = "check", !.attempt = @ + 1]
    /\ UNCHANGED <<loopVars, curve, pwm_out, apiVars, cliVars>>

RetryNext ==
    \/ retry_check
    \/ retry_write
    \/ retry_sleep

SpecRetry ==
    RetryInit /\ [][RetryNext]_vars

\* C7: set_pwm_enable_with_retry ends after at most 10 attempts and returns: on a
\* readable device that reflects a write at once it writes at most once and ends
\* with the desired mode; on a device that never reflects the change it writes
\* exactly 10 times and returns.
C7_RetryBounded ==
    /\ retry.attempt <= MaxAttempts
    /\ retry.writes <= MaxAttempts
    /\ retry.pc \in {"check", "write", "sleep"} => ENABLED RetryNext
    /\ (retry.pc \in {"done", "gave_up"} /\ retry.kind = "immediate"
            /\ retry.initial # "unreadable") =>
         /\ retry.writes <= 1
         /\ check_pwm_enable(retry.content) = retry.enable
    /\ (retry.pc \in {"done", "gave_up"} /\ retry.kind = "never"
            /\ check_pwm_enable(retry.initial) # retry.enable) =>
         /\ retry.writes = MaxAttempts
         /\ retry.pc = "gave_up"

\* The call gave up on a device that never reflects the change.
C7_Witness ==
    /\ retry.pc = "gave_up"
    /\ retry.kind = "never"
    /\ retry.initial = "0"
    /\ retry.enable
    /\ retry.writes = MaxAttempts

----------------------------------------------------------------------------
(* One get_fan_power call *)

MaxSteps == 4

\* The breakpoints the curves are made of: equal temperatures, rising and falling power.
StepChoices ==
    { [temp |-> 0, power |-> 20], [temp |-> 0, power |-> 50], [temp |-> 0, power |-> 100],
      [temp |-> 50, power |-> 50], [temp |-> 50, power |-> 70],
      [temp |-> 80, power |-> 50], [temp |-> 80, power |-> 100] }

TempChoices == {-5, 0, 4, 7, 50, 65, 80, 100}

StepSeqs == UNION { [1..n -> StepChoices] : n \in 0..MaxSteps }

CurveInit ==
    /\ LoopIdle
    /\ ApiIdle
    /\ CliIdle
    /\ retry = NoRetry
    /\ pwm_out = NoPwmOut
    /\ \E steps \in StepSeqs, temp \in TempChoices :
         curve = [pc |-> "call", steps |-> steps, temp |-> temp,
                  ret |-> [power |-> 0, branch |-> "none", at |-> 0]]

call_get_fan_power ==
    /\ curve.pc = "call"
    /\ curve' = [curve EXCEPT !.pc = "done", !.ret = get_fan_power_ret(curve.steps, curve.temp)]
    /\ UNCHANGED <<loopVars, retry, pwm_out, apiVars, cliVars>>

SpecCurve ==
    CurveInit /\ [][call_get_fan_power]_vars

StepTemps(steps) ==
    {steps[i].temp : i \in 1..Len(steps)}

MinTemp(steps) ==
    CHOOSE t \in StepTemps(steps) : \A u \in StepTemps(steps) : t <= u

MaxTemp(steps) ==
    CHOOSE t \in StepTemps(steps) : \A u \in StepTemps(steps) : t >= u

\* C8: for non-empty steps in any order, a temperature at or below the lowest
\* breakpoint gives the power of a lowest-temperature step, and one at or above
\* the highest breakpoint the power of a highest-temperature step.
C8_Clamps ==
    (curve.pc = "done" /\ curve.steps # <<>>) =>
        /\ curve.temp <= MinTemp(curve.steps) =>
             \E i \in 1..Len(curve.steps) :
                /\ curve.steps[i].temp = MinTemp(curve.steps)
                /\ curve.ret.power = curve.steps[i].power
        /\ curve.temp >= MaxTemp(curve.steps) =>
             \E i \in 1..Len(curve.steps) :
                /\ curve.steps[i].temp = MaxTemp(curve.steps)
                /\ curve.ret.power = curve.steps[i].power

\* Unsorted steps, clamped above.
C8_Witness ==
    /\ curve.pc = "done"
    /\ curve.steps = << [temp |-> 80, power |-> 100], [temp |-> 0, power |-> 20],
                        [temp |-> 50, power |-> 50] >>
    /\ curve.temp = 100
    /\ curve.ret.power = 100

\* Steps i and j are adjacent breakpoints of the (stably) sorted curve around temp.
Bracket(steps, i, j, temp) ==
    /\ steps[i].temp < temp
    /\ temp < steps[j].temp
    /\ \A k \in 1..Len(steps) :
         /\ ~(steps[i].temp < steps[k].temp /\ steps[k].temp < steps[j].temp)
         /\ steps[k].temp = steps[i].temp => k <= i
         /\ steps[k].temp = steps[j].temp => k >= j

\* C9: strictly between two adjacent breakpoints (t1,p1), (t2,p2) the result is
\* p1 + (p2-p1)*(t-t1)/(t2-t1) rounded to the nearest integer, and lies between
\* p1 and p2.
C9_Interpolation ==
    curve.pc = "done" =>
        \A i, j \in 1..Len(curve.steps) :
            Bracket(curve.steps, i, j, curve.temp) =>
                LET a == curve.steps[i]
                    b == curve.steps[j]
                    d == b.temp - a.temp
                    exact == a.power * d + (b.power - a.power) * (curve.temp - a.temp)
                    got == curve.ret.power
                IN /\ 2 * Dist(got * d, exact) <= d
                   /\ got >= (IF a.power <= b.power THEN a.power ELSE b.power)
                   /\ got <= (IF a.power <= b.power THEN b.power ELSE a.power)

\* Steps [(0,20),(50,50),(80,100)] at 65 degrees give 75.
C9_Witness ==
    /\ curve.pc = "done"
    /\ curve.steps = << [temp |-> 0, power |-> 20], [temp |-> 50, power |-> 50],
                        [temp |-> 80, power |-> 100] >>
    /\ curve.temp = 65
    /\ curve.ret.power = 75
    /\ curve.ret.branch = "interpolate"

\* C26: get_fan_power never divides by zero: whenever it returns from the
\* bracketing loop, for steps in any order and with any number of equal
\* temperatures, the two steps it interpolates between have different
\* temperatures, the lower one strictly below the temperature asked for.
C26_BracketTempsDiffer ==
    (curve.pc = "done" /\ curve.ret.branch = "interpolate") =>
        LET sorted == SortByTemp(curve.steps)
            i == curve.ret.at
        IN /\ i \in 1..(Len(sorted) - 1)
           /\ sorted[i].temp # sorted[i + 1].temp
           /\ sorted[i].temp < curve.temp
           /\ curve.temp <= sorted[i + 1].temp

\* Two steps at 50 degrees between one below and one above, asked at 50: the
\* bracket taken is the one from 0 to 50, not the one from 50 to 50.
C26_Witness ==
    /\ curve.pc = "done"
    /\ curve.steps = << [temp |-> 50, power |-> 70], [temp |-> 80, power |-> 100],
                        [temp |-> 50, power |-> 50], [temp |-> 0, power |-> 20] >>
    /\ curve.temp = 50
    /\ curve.ret.branch = "interpolate"
    /\ curve.ret.at = 1
    /\ curve.ret.power = 70

\* C28: the closest-step fallback of get_fan_power is never taken: for non-empty
\* steps every call returns from the lower clamp, the upper clamp or the
\* bracketing loop.
C28_FallbackUnreachable ==
    (curve.pc = "done" /\ curve.steps # <<>>) =>
        curve.ret.branch \in {"low", "high", "interpolate"}

\* A temperature equal to an inner breakpoint is answered by the bracketing loop.
C28_Witness ==
    /\ curve.pc = "done"
    /\ curve.steps = << [temp |-> 0, power |-> 20], [temp |-> 50, power |-> 50],
                        [temp |-> 80, power |-> 100] >>
    /\ curve.temp = 50
    /\ curve.ret.branch = "interpolate"
    /\ curve.ret.power = 50

----------------------------------------------------------------------------
(* One set_fan_power call *)

MaxPercent == 100

PwmInit ==
    /\ LoopIdle
    /\ ApiIdle
    /\ CliIdle
    /\ retry = NoRetry
    /\ curve = NoCurve
    /\ \E power \in 0..MaxPercent :
         pwm_out = [pc |-> "call", power |-> power, written |-> -1]

\* set_fan_power: the write of pwm_value succeeds, or fails and is only reported.
call_set_fan_power ==
    /\ pwm_out.pc = "call"
    /\ \E success \in BOOLEAN :
         pwm_out' = [pwm_out EXCEPT !.pc = "done",
                                    !.written = IF success THEN pwm_value(pwm_out.power) ELSE -1]
    /\ UNCHANGED <<loopVars, retry, curve, apiVars, cliVars>>

SpecPwm ==
    PwmInit /\ [][call_set_fan_power]_vars

\* C10: for a percentage in 0..100 the value written to the PWM file is
\* percent * 255 / 100 rounded to the nearest integer (50 -> 128, 1 -> 3), in 0..255.
C10_PwmRounded ==
    (pwm_out.pc = "done" /\ pwm_out.written # -1) =>
        /\ pwm_out.written = (2 * pwm_out.power * 255 + 100) \div 200
        /\ pwm_out.written \in 0..255

----------------------------------------------------------------------------
(* The management handlers of api.rs, one HTTP worker per request *)

MaxRequests == 2

ApiFanNames == {"fan_1", "fan_2", "fan_9"}

\* The body of POST /fans (AddFanRequest) and of PUT /fans/{name} (UpdateFanRequest).
AddData == FanConfig(HwB, CurveB)

UpdateData == [steps |-> CurveB]

ApiConfigInputs == {OneFanCurve, EmptyFans}

\* Path::file_name: the last component of the path.
file_name(path) ==
    CASE path = "/hw0/temp1_input" -> "temp1_input"
      [] path = "/hw1/pwm1" -> "pwm1"
      [] path = "/hw1/pwm2" -> "pwm2"
      [] OTHER -> path

\* config_for_save: the directories are stripped from both input paths.
config_for_save(cfg) ==
    [n \in DOMAIN cfg |->
        [cfg[n] EXCEPT !.sensor_input = file_name(@), !.pwm_input = file_name(@)]]

ApiInit ==
    /\ config \in InitConfigs
    /\ running = TRUE
    /\ pc = "start"
    /\ fans_to_process = EmptyFans
    /\ last_hw_map = EmptyFans
    /\ guard = FALSE
    /\ passDone = {}
    /\ cleaned = {}
    /\ inited = {}
    /\ actuated = {}
    /\ unread = {}
    /\ pwm_failed = {}
    /\ iterPasses = <<>>
    /\ iter_hw_map = EmptyFans
    /\ pwm_enable = [p \in PwmPaths |-> "0"]
    /\ mgmt_pc = "idle"
    /\ mgmt_new = EmptyFans
    /\ written = {config}
    /\ stops = 0
    /\ updates = 0
    /\ server = "serving"
    /\ retry = NoRetry
    /\ curve = NoCurve
    /\ pwm_out = NoPwmOut
    /\ handler = [w \in Workers |-> NoRequest]
    /\ mutex = 0
    /\ config_json = config_for_save(config)
    /\ requests = 0
    /\ CliIdle

\* What every handler leaves alone: the loop thread's variables but the Config.
apiUnchanged ==
    <<running, pc, fans_to_process, last_hw_map, guard, passDone, cleaned, inited,
      actuated, unread, pwm_failed, iterPasses, iter_hw_map, pwm_enable, mgmt_pc, mgmt_new,
      stops, updates, server, retry, curve, pwm_out, cliVars>>

\* A request arrives at a free worker and is routed to its handler.
receive_request(w) ==
    /\ handler[w].pc \in {"idle", "done"}
    /\ requests < MaxRequests
    /\ requests' = requests + 1
    /\ \E op \in {"get_status", "get_config", "get_fans", "get_fan", "update_config",
                  "update_fan", "delete_fan", "add_fan"} :
       \E name \in (IF op \in {"get_fan", "update_fan", "delete_fan"} THEN ApiFanNames ELSE {""}) :
       \E body \in (IF op = "update_config" THEN ApiConfigInputs
                    ELSE IF op = "update_fan" THEN {UpdateData}
                    ELSE IF op = "add_fan" THEN {AddData}
                    ELSE {<<>>}) :
          handler' = [handler EXCEPT ![w] =
                         [pc |-> "lock", op |-> op, name |-> name, body |-> body,
                          clone |-> EmptyFans, response |-> NoResponse]]
    /\ UNCHANGED <<config, mutex, config_json, written, apiUnchanged>>

\* A faulty mutex that lets every worker in.
mutex_always_free ==
    TRUE

\* The controller mutex is held by no worker.
mutex_free ==
    mutex = 0

\* `let controller = state.controller.lock().unwrap()`: waits while another worker
\* holds it; then `controller.get_config().clone()`, the Config the handler works on.
lock_controller(w) ==
    /\ handler[w].pc = "lock"
    /\ mutex_free
    /\ mutex' = w
    /\ handler' = [handler EXCEPT ![w].pc = "body", ![w].clone = config]
    /\ UNCHANGED <<config, config_json, requests, written, apiUnchanged>>

\* The handler returns its response; the MutexGuard is dropped.
respond(w, status, success, data, saved) ==
    /\ handler' = [handler EXCEPT ![w].pc = "done",
                                  ![w].clone = EmptyFans,
                                  ![w].response = [status |-> status, success |-> success,
                                                   data |-> data, saved |-> saved]]
    /\ mutex' = 0

\* What reading a PWM file may give: a failed read, or the duty cycle it holds.
PwmReads ==
    { [status |-> "unreadable", value |-> 0],
      [status |-> "ok", value |-> 127] }

\* get_status: `(pwm * 100 / 255) as u8`.
status_power(pwm) ==
    (pwm * 100) \div 255

\* GET /status: both files of every fan are read while the controller is locked.
handle_get_status(w) ==
    /\ handler[w].pc = "body"
    /\ handler[w].op = "get_status"
    /\ \E temps \in [DOMAIN config -> SensorReads], pwms \in [DOMAIN config -> PwmReads] :
         respond(w, "Ok", TRUE,
                 [n \in DOMAIN config |->
                     [temperature |-> IF temps[n].status = "ok"
                                      THEN Some(TruncDiv(temps[n].value, 1000)) ELSE None,
                      power |-> IF pwms[n].status = "ok"
                                THEN Some(status_power(pwms[n].value)) ELSE None,
                      sensor_input |-> config[n].sensor_input,
                      pwm_input |-> config[n].pwm_input,
                      steps |-> config[n].steps]],
                 "no")
    /\ UNCHANGED <<config, config_json, requests, written, apiUnchanged>>

\* GET /config and GET /fans: a clone of the Config.
handle_get_config(w) ==
    /\ handler[w].pc = "body"
    /\ handler[w].op \in {"get_config", "get_fans"}
    /\ respond(w, "Ok", TRUE, config, "no")
    /\ UNCHANGED <<config, config_json, requests, written, apiUnchanged>>

\* GET /fans/{name}.
handle_get_fan(w) ==
    /\ handler[w].pc = "body"
    /\ handler[w].op = "get_fan"
    /\ IF handler[w].name \in DOMAIN config
       THEN respond(w, "Ok", TRUE, config[handler[w].name], "no")
       ELSE respond(w, "NotFound", FALSE, None, "no")
    /\ UNCHANGED <<config, config_json, requests, written, apiUnchanged>>

\* A faulty handler that puts the old Config back when the save fails.
store_and_save_rollback(w, new_config, status, data) ==
    /\ ~guard
    /\ written' = written \cup {new_config}
    /\ \E success \in BOOLEAN :
         IF success
         THEN /\ config' = update_config(config, new_config)
              /\ config_json' = config_for_save(update_config(config, new_config))
              /\ respond(w, status, TRUE, data, "saved")
         ELSE /\ UNCHANGED <<config, config_json>>
              /\ respond(w, "InternalServerError", FALSE, None, "failed")

\* `controller.update_config(config)` and then save_config: the write lock is
\* taken once no read guard is held; a failed save is answered with a server
\* error, the Config staying as stored.
store_and_save(w, new_config, status, data) ==
    /\ ~guard
    /\ config' = update_config(config, new_config)
    /\ written' = written \cup {new_config}
    /\ \E success \in BOOLEAN :
         IF success
         THEN /\ config_json' = config_for_save(update_config(config, new_config))
              /\ respond(w, status, TRUE, data, "saved")
         ELSE /\ UNCHANGED config_json
              /\ respond(w, "InternalServerError", FALSE, None, "failed")

\* PUT /config.
handle_update_config(w) ==
    /\ handler[w].pc = "body"
    /\ handler[w].op = "update_config"
    /\ store_and_save(w, handler[w].body, "Ok", None)
    /\ UNCHANGED <<requests, apiUnchanged>>

\* PUT /fans/{name}: `fan.steps = update_data.steps.clone()` on a clone of the Config.
handle_update_fan(w) ==
    /\ handler[w].pc = "body"
    /\ handler[w].op = "update_fan"
    /\ LET name == handler[w].name
           cfg == handler[w].clone
       IN
       IF name \in DOMAIN cfg
       THEN store_and_save(w, [cfg EXCEPT ![name].steps = handler[w].body.steps], "Ok", None)
       ELSE /\ respond(w, "NotFound", FALSE, None, "no")
            /\ UNCHANGED <<config, config_json, written>>
    /\ UNCHANGED <<requests, apiUnchanged>>

\* A faulty lookup: every name is taken as found.
remove_found_always(cfg, name) ==
    TRUE

\* `config.fan.remove(&fan_name).is_some()`.
remove_found(cfg, name) ==
    name \in DOMAIN cfg

\* DELETE /fans/{name}.
handle_delete_fan(w) ==
    /\ handler[w].pc = "body"
    /\ handler[w].op = "delete_fan"
    /\ LET name == handler[w].name
           cfg == handler[w].clone
       IN
       IF remove_found(cfg, name)
       THEN store_and_save(w, [n \in DOMAIN cfg \ {name} |-> cfg[n]], "Ok", None)
       ELSE /\ respond(w, "NotFound", FALSE, None, "no")
            /\ UNCHANGED <<config, config_json, written>>
    /\ UNCHANGED <<requests, apiUnchanged>>

\* `format!("fan_{}", config.fan.len() + 1)`.
generated_name(cfg) ==
    "fan_" \o ToString(Cardinality(DOMAIN cfg) + 1)

\* HashMap::insert: the entry of an existing key is replaced.
insert(cfg, name, fan) ==
    [n \in DOMAIN cfg \cup {name} |-> IF n = name THEN fan ELSE cfg[n]]

\* POST /fans.
handle_add_fan(w) ==
    /\ handler[w].pc = "body"
    /\ handler[w].op = "add_fan"
    /\ LET cfg == handler[w].clone
           fan_name == generated_name(cfg)
       IN store_and_save(w, insert(cfg, fan_name, handler[w].body), "Created", Some(fan_name))
    /\ UNCHANGED <<requests, apiUnchanged>>

ApiNext ==
    \/ \E w \in Workers : receive_request(w)
    \/ \E w \in Workers : lock_controller(w)
    \/ \E w \in Workers : handle_get_status(w)
    \/ \E w \in Workers : handle_get_config(w)
    \/ \E w \in Workers : handle_get_fan(w)
    \/ \E w \in Workers : handle_update_config(w)
    \/ \E w \in Workers : handle_update_fan(w)
    \/ \E w \in Workers : handle_delete_fan(w)
    \/ \E w \in Workers : handle_add_fan(w)

SpecApi ==
    ApiInit /\ [][ApiNext]_vars

----------------------------------------------------------------------------
(* Properties of the management handlers *)

\* Worker w returns from its handler in this step.
Returns(w) ==
    handler[w].pc = "body" /\ handler'[w].pc = "done"

\* C13: POST /fans stores the new fan under a name that is no key of the Config:
\* the Config has one fan more and every fan it had is as it was, whatever adds
\* and deletes came before.
C13_AddFanAlwaysAdds ==
    [][\A w \in Workers :
         (Returns(w) /\ handler[w].op = "add_fan") =>
             /\ Cardinality(DOMAIN config') = Cardinality(DOMAIN config) + 1
             /\ \A n \in DOMAIN config : config'[n] = config[n]]_vars

\* C14: a mutation whose save_config fails is answered with a server error and
\* success = false, config.json is as it was, and the Config in memory is the
\* mutated one: the body of PUT /config, the fan with its new steps, the Config
\* without the deleted fan, the Config with the added fan.
C14_SaveFailureKeepsNewConfig ==
    [][\A w \in Workers :
         (Returns(w) /\ handler'[w].response.saved = "failed") =>
             /\ handler'[w].response.status = "InternalServerError"
             /\ handler'[w].response.success = FALSE
             /\ config_json' = config_json
             /\ handler[w].op \in {"update_config", "update_fan", "delete_fan", "add_fan"}
             /\ handler[w].op = "update_config" => config' = handler[w].body
             /\ handler[w].op = "update_fan" =>
                    /\ DOMAIN config' = DOMAIN config
                    /\ config'[handler[w].name].steps = handler[w].body.steps
             /\ handler[w].op = "delete_fan" =>
                    /\ handler[w].name \in DOMAIN config
                    /\ DOMAIN config' = DOMAIN config \ {handler[w].name}
             /\ handler[w].op = "add_fan" =>
                    \E n \in DOMAIN config' : config'[n] = handler[w].body]_vars

\* DELETE /fans/fan_1 was answered with a server error and fan_1 is gone from
\* the Config in memory, not from config.json.
C14_Witness ==
    \E w \in Workers :
        /\ handler[w].pc = "done"
        /\ handler[w].op = "delete_fan"
        /\ handler[w].name = "fan_1"
        /\ handler[w].response.status = "InternalServerError"
        /\ "fan_1" \notin DOMAIN config
        /\ "fan_1" \in DOMAIN config_json

\* C15: GET, PUT and DELETE /fans/{name} with a name that is no key of the Config
\* answer not-found with success = false, leave the Config as it is and do not
\* call save_config.
C15_UnknownFanNotFound ==
    [][\A w \in Workers :
         (/\ Returns(w)
          /\ handler[w].op \in {"get_fan", "update_fan", "delete_fan"}
          /\ handler[w].name \notin DOMAIN config) =>
             /\ handler'[w].response.status = "NotFound"
             /\ handler'[w].response.success = FALSE
             /\ handler'[w].response.saved = "no"
             /\ config' = config
             /\ config_json' = config_json]_vars

\* All three requests were made for a name the Config does not have.
C15_Witness ==
    \E w, v \in Workers :
        /\ w # v
        /\ handler[w].pc = "done"
        /\ handler[w].op = "delete_fan"
        /\ handler[w].name = "fan_9"
        /\ handler[w].response.status = "NotFound"
        /\ handler[v].pc = "done"
        /\ handler[v].op = "update_fan"
        /\ handler[v].name = "fan_9"
        /\ handler[v].response.status = "NotFound"

ReadOps == {"get_status", "get_config", "get_fans", "get_fan"}

\* C16: a management read never waits for another read: no worker with a read
\* request waits for the controller while a worker serving a read holds it.
C16_ReadersNeverWait ==
    \A w, v \in Workers :
        ~(/\ handler[w].pc = "lock"
          /\ handler[w].op \in ReadOps
          /\ mutex = v
          /\ handler[v].op \in ReadOps)

FanOps == {"update_fan", "delete_fan", "add_fan"}

\* The fan the mutation of worker w is about: the name of its path, or the name
\* add_fan gives the new fan in the Config cfg.
FanOf(w, cfg) ==
    IF handler[w].op = "add_fan" THEN generated_name(cfg) ELSE handler[w].name

\* The Config cfg shows what the finished mutation of worker v did to its fan.
EffectIn(v, cfg) ==
    CASE handler[v].op = "update_fan" ->
             /\ handler[v].name \in DOMAIN cfg
             /\ cfg[handler[v].name].steps = handler[v].body.steps
      [] handler[v].op = "delete_fan" ->
             handler[v].name \notin DOMAIN cfg
      [] handler[v].op = "add_fan" ->
             /\ handler[v].response.data # None
             /\ handler[v].response.data[1] \in DOMAIN cfg
             /\ cfg[handler[v].response.data[1]] = handler[v].body
      [] OTHER -> FALSE

\* The fan the finished mutation of worker v was about.
DoneFanOf(v) ==
    IF handler[v].op = "add_fan"
    THEN (IF handler[v].response.data # None THEN handler[v].response.data[1] ELSE "")
    ELSE handler[v].name

\* C25: fan mutations are not lost. When a PUT or DELETE /fans/{name} or a POST
\* /fans returns, the Config it cloned is still the stored one (no other
\* replacement came between its clone and its replace), it changes its own fan
\* only (a PUT only that fan's steps), and what the finished mutation of the
\* other worker did to a different fan is still in the Config.
C25_MutationsNotLost ==
    [][\A w \in Workers :
         (Returns(w) /\ handler[w].op \in FanOps) =>
             /\ handler[w].clone = config
             /\ (handler[w].op = "update_fan" /\ handler[w].name \in DOMAIN config) =>
                    config' = [config EXCEPT ![handler[w].name].steps = handler[w].body.steps]
             /\ \A n \in DOMAIN config \ {FanOf(w, config)} :
                    n \in DOMAIN config' /\ config'[n] = config[n]
             /\ \A n \in DOMAIN config' \ {FanOf(w, config)} : n \in DOMAIN config
             /\ \A v \in Workers \ {w} :
                    (/\ handler[v].pc = "done"
                     /\ handler[v].op \in FanOps
                     /\ DoneFanOf(v) # FanOf(w, config)
                     /\ EffectIn(v, config)) => EffectIn(v, config')]_vars

\* PUT /fans/fan_1 and DELETE /fans/fan_2 were served by the two workers: fan_1
\* has the new steps and its old paths, fan_2 is gone.
C25_Witness ==
    /\ \E w, v \in Workers :
         /\ handler[w].pc = "done"
         /\ handler[w].op = "update_fan"
         /\ handler[w].name = "fan_1"
         /\ handler[v].pc = "done"
         /\ handler[v].op = "delete_fan"
         /\ handler[v].name = "fan_2"
         /\ handler[v].response.status \in {"Ok", "InternalServerError"}
    /\ config = [n \in {"fan_1"} |-> FanConfig(HwA, UpdateData.steps)]

\* C27: the percentage GET /status reports is the one the loop applied: for
\* every percent in 0..100, the value set_fan_power wrote, converted back by the
\* status conversion pwm * 100 / 255, is that percent.
C27_StatusRoundTrip ==
    (pwm_out.pc = "done" /\ pwm_out.written # -1) =>
        status_power(pwm_out.written) = pwm_out.power

----------------------------------------------------------------------------
(* One create_config call: the names of config.json resolved against sysfs *)

MaxHwmon == 3

\* A fan of config.json: chip names, and input files given by name (or, for the
\* last one, by an absolute path).
RawFan(sensor_name, sensor_input, pwm_name) ==
    [sensor_name |-> sensor_name, sensor_input |-> sensor_input,
     pwm_name |-> pwm_name, pwm_input |-> "pwm1", steps |-> CurveA]

RawFanChoices ==
    { RawFan(sn, "temp1_input", pn) : sn \in {"coretemp", "k10temp"}, pn \in {"nct6775", "it87"} }
        \cup { RawFan("coretemp", "/dev/temp1_input", "nct6775") }

RawConfigs ==
    UNION { [names -> RawFanChoices] : names \in SUBSET FanNames }

\* /sys/class/hwmon/hwmon*/name, in the order glob gives them: what each file
\* holds, or that it cannot be read.
HwmonEntries ==
    { [readable |-> TRUE, content |-> "coretemp\n"],
      [readable |-> TRUE, content |-> "nct6775\n"],
      [readable |-> FALSE, content |-> ""] }

HwmonListings ==
    UNION { [1..n -> HwmonEntries] : n \in 0..MaxHwmon }

\* `path.parent()` of the i-th name file.
hwmon_dir(i) ==
    "/sys/class/hwmon/hwmon" \o ToString(i - 1)

\* str::trim on the content of a name file.
trim(content) ==
    CASE content = "coretemp\n" -> "coretemp"
      [] content = "nct6775\n" -> "nct6775"
      [] OTHER -> content

\* The for loop of find_sysfs_path from the i-th glob entry on.
RECURSIVE find_from(_, _, _)
find_from(name, hwmon, i) ==
    IF i > Len(hwmon) THEN None
    ELSE IF hwmon[i].readable /\ trim(hwmon[i].content) = name THEN Some(hwmon_dir(i))
    ELSE find_from(name, hwmon, i + 1)

\* A faulty lookup that compares the untrimmed content.
find_sysfs_path_untrimmed(name, hwmon) ==
    LET hits == {i \in 1..Len(hwmon) : hwmon[i].readable /\ hwmon[i].content = name}
    IN IF hits = {} THEN None
       ELSE Some(hwmon_dir(CHOOSE i \in hits : \A j \in hits : i <= j))

find_sysfs_path(name, hwmon) ==
    find_from(name, hwmon, 1)

is_absolute(path) ==
    path = "/dev/temp1_input"

\* PathBuf::join: an absolute argument replaces the directory.
path_join(dir, path) ==
    IF is_absolute(path) THEN path ELSE dir \o "/" \o path

\* The body of `for (name, fan) in &mut config.fan`.
resolve_fan(fan, hwmon) ==
    LET sensor_path == find_sysfs_path(fan.sensor_name, hwmon)
        pwm_path == find_sysfs_path(fan.pwm_name, hwmon)
    IN IF sensor_path = None THEN fan
       ELSE IF pwm_path = None THEN fan
       ELSE [fan EXCEPT !.sensor_input = path_join(sensor_path[1], @),
                        !.pwm_input = path_join(pwm_path[1], @)]

create_config(raw, hwmon) ==
    [n \in DOMAIN raw |-> resolve_fan(raw[n], hwmon)]

StartupInit ==
    /\ LoopIdle
    /\ retry = NoRetry
    /\ curve = NoCurve
    /\ pwm_out = NoPwmOut
    /\ ApiIdle
    /\ parse = NoParse
    /\ \E file \in {"ok", "unreadable", "invalid"}, raw \in RawConfigs, hwmon \in HwmonListings :
         startup = [pc |-> "call", file |-> file, raw |-> raw, hwmon |-> hwmon, ret |-> EmptyFans]

\* create_config: both `expect`s panic when config.json cannot be read or parsed.
call_create_config ==
    /\ startup.pc = "call"
    /\ startup' = IF startup.file = "ok"
                  THEN [startup EXCEPT !.pc = "done",
                                       !.ret = create_config(startup.raw, startup.hwmon)]
                  ELSE [startup EXCEPT !.pc = "panicked"]
    /\ UNCHANGED <<loopVars, retry, curve, pwm_out, apiVars, parse>>

SpecStartup ==
    StartupInit /\ [][call_create_config]_vars

\* The readable name files that hold `name` and a line end.
Matches(name, hwmon) ==
    {i \in 1..Len(hwmon) : hwmon[i].readable /\ hwmon[i].content = name \o "\n"}

FirstMatch(name, hwmon) ==
    CHOOSE i \in Matches(name, hwmon) : \A j \in Matches(name, hwmon) : i <= j

\* C17: with config.json read, create_config returns every fan entry: a fan whose
\* sensor and PWM chip names both match a readable name file has both inputs under
\* the first matching directory (an input given as an absolute path stays as it
\* is, as PathBuf::join has it); a fan with either name unmatched keeps both
\* inputs as they were; whatever the other fans do, and with no panic.
C17_FansResolvedIndependently ==
    /\ startup.pc = "panicked" => startup.file # "ok"
    /\ startup.pc = "done" =>
         /\ DOMAIN startup.ret = DOMAIN startup.raw
         /\ \A n \in DOMAIN startup.raw :
              LET fan == startup.raw[n]
                  got == startup.ret[n]
                  hwmon == startup.hwmon
              IN /\ got.sensor_name = fan.sensor_name
                 /\ got.pwm_name = fan.pwm_name
                 /\ got.steps = fan.steps
                 /\ IF Matches(fan.sensor_name, hwmon) # {} /\ Matches(fan.pwm_name, hwmon) # {}
                    THEN /\ got.sensor_input =
                              IF fan.sensor_input = "/dev/temp1_input" THEN fan.sensor_input
                              ELSE hwmon_dir(FirstMatch(fan.sensor_name, hwmon)) \o "/" \o fan.sensor_input
                         /\ got.pwm_input =
                              hwmon_dir(FirstMatch(fan.pwm_name, hwmon)) \o "/" \o fan.pwm_input
                    ELSE /\ got.sensor_input = fan.sensor_input
                         /\ got.pwm_input = fan.pwm_input

\* Two fans, fan_1 resolved (past an unreadable name file) and fan_2 not.
C17_Witness ==
    /\ startup.pc = "done"
    /\ startup.hwmon = << [readable |-> FALSE, content |-> ""],
                          [readable |-> TRUE, content |-> "coretemp\n"],
                          [readable |-> TRUE, content |-> "nct6775\n"] >>
    /\ DOMAIN startup.ret = FanNames
    /\ startup.ret["fan_1"].sensor_input = "/sys/class/hwmon/hwmon1/temp1_input"
    /\ startup.ret["fan_1"].pwm_input = "/sys/class/hwmon/hwmon2/pwm1"
    /\ startup.raw["fan_2"].pwm_name = "it87"
    /\ startup.ret["fan_2"].sensor_input = "temp1_input"
    /\ startup.ret["fan_2"].pwm_input = "pwm1"

----------------------------------------------------------------------------
(* One `update` or `add` CLI command: parse_steps, then the request *)

MaxFields == 4

\* The texts between separators, as characters, with what each one is: an
\* integer or not, and its value.
Field(text, int, value) ==
    [text |-> text, int |-> int, value |-> value]

FieldChoices ==
    { Field(<<>>, FALSE, 0),
      Field(<<"3", "0">>, TRUE, 30),
      Field(<<" ", "6", "0", " ">>, TRUE, 60),
      Field(<<"-", "5">>, TRUE, -5),
      Field(<<"1", "0", "0">>, TRUE, 100),
      Field(<<"1", "5", "0">>, TRUE, 150),
      Field(<<"x">>, FALSE, 0) }

Separators == {":", ","}

\* The steps argument: the fields with a separator between each two.
RECURSIVE Flatten(_, _, _)
Flatten(fields, seps, n) ==
    IF n = 0 THEN <<>>
    ELSE IF n = 1 THEN fields[1].text
    ELSE Flatten(fields, seps, n - 1) \o <<seps[n - 1]>> \o fields[n].text

\* str::split: the pieces of s between the occurrences of sep.
RECURSIVE Split(_, _)
Split(s, sep) ==
    LET at == {i \in 1..Len(s) : s[i] = sep}
    IN IF at = {} THEN <<s>>
       ELSE LET i == CHOOSE k \in at : \A j \in at : k <= j
            IN <<SubSeq(s, 1, i - 1)>> \o Split(SubSeq(s, i + 1, Len(s)), sep)

\* str::trim: white space taken off both ends.
RECURSIVE str_trim(_)
str_trim(s) ==
    IF s = <<>> THEN s
    ELSE IF s[1] = " " THEN str_trim(Tail(s))
    ELSE IF s[Len(s)] = " " THEN str_trim(SubSeq(s, 1, Len(s) - 1))
    ELSE s

Digits == {"0", "1", "2", "3", "4", "5", "6", "7", "8", "9"}

DigitValue(c) ==
    CASE c = "0" -> 0 [] c = "1" -> 1 [] c = "2" -> 2 [] c = "3" -> 3 [] c = "4" -> 4
      [] c = "5" -> 5 [] c = "6" -> 6 [] c = "7" -> 7 [] c = "8" -> 8 [] c = "9" -> 9

RECURSIVE digits_value(_)
digits_value(s) ==
    IF s = <<>> THEN 0
    ELSE 10 * digits_value(SubSeq(s, 1, Len(s) - 1)) + DigitValue(s[Len(s)])

ParseErr == [is_ok |-> FALSE, value |-> 0]

\* str::parse for an integer type: an optional sign (`-` only if signed), then
\* digits only, and a value the type can hold.
parse_int(s, signed, min, max) ==
    LET sign == IF s # <<>> /\ (s[1] = "+" \/ (signed /\ s[1] = "-")) THEN s[1] ELSE ""
        digits == IF sign = "" THEN s ELSE Tail(s)
        value == IF sign = "-" THEN -digits_value(digits) ELSE digits_value(digits)
    IN IF digits = <<>> THEN ParseErr
       ELSE IF \E i \in 1..Len(digits) : digits[i] \notin Digits THEN ParseErr
       ELSE IF value < min \/ value > max THEN ParseErr
       ELSE [is_ok |-> TRUE, value |-> value]

\* `let temp: i32 = ...parse()?`
parse_i32(s) ==
    parse_int(s, TRUE, -2147483647 - 1, 2147483647)

\* `let power: u8 = ...parse()?`
parse_u8(s) ==
    parse_int(s, FALSE, 0, 255)

StepsErr(error) ==
    [is_ok |-> FALSE, steps |-> <<>>, error |-> error]

\* A faulty range check that lets every power through.
power_too_high_never(power) ==
    FALSE

\* `if power > 100`.
power_too_high(power) ==
    power > 100

\* The for loop of parse_steps from the i-th pair on, and what follows it.
RECURSIVE parse_pairs(_, _, _)
parse_pairs(pairs, i, steps) ==
    IF i > Len(pairs)
    THEN IF steps = <<>> THEN StepsErr("At least one step must be provided")
         ELSE [is_ok |-> TRUE, steps |-> steps, error |-> "none"]
    ELSE LET parts == Split(pairs[i], ":")
         IN IF Len(parts) # 2 THEN StepsErr("Invalid step format")
            ELSE LET temp == parse_i32(str_trim(parts[1]))
                     power == parse_u8(str_trim(parts[2]))
                 IN IF ~temp.is_ok THEN StepsErr("ParseIntError")
                    ELSE IF ~power.is_ok THEN StepsErr("ParseIntError")
                    ELSE IF power_too_high(power.value)
                    THEN StepsErr("Power must be between 0 and 100")
                    ELSE parse_pairs(pairs, i + 1,
                                     Append(steps, [temp |-> temp.value, power |-> power.value]))

parse_steps(steps_str) ==
    parse_pairs(Split(steps_str, ","), 1, <<>>)

ParseInit ==
    /\ LoopIdle
    /\ retry = NoRetry
    /\ curve = NoCurve
    /\ pwm_out = NoPwmOut
    /\ ApiIdle
    /\ startup = NoStartup
    /\ \E n \in 0..MaxFields :
       \E fields \in [1..n -> FieldChoices], seps \in [1..(n - 1) -> Separators] :
         parse = [pc |-> "call", fields |-> fields, seps |-> seps,
                  input |-> Flatten(fields, seps, n),
                  ret |-> StepsErr("none"), sent |-> FALSE]

\* run_cli, Update and Add: `parse_steps(&steps)?`, and make_request after it.
call_parse_steps ==
    /\ parse.pc = "call"
    /\ LET ret == parse_steps(parse.input)
       IN parse' = [parse EXCEPT !.pc = "done", !.ret = ret, !.sent = ret.is_ok]
    /\ UNCHANGED <<loopVars, retry, curve, pwm_out, apiVars, startup>>

SpecParse ==
    ParseInit /\ [][call_parse_steps]_vars

\* The argument is a list of pairs: fields in twos, `:` inside a pair and `,`
\* between pairs, every field an integer, every power in 0..100.
WellFormed(fields, seps) ==
    /\ Len(fields) >= 2
    /\ Len(fields) % 2 = 0
    /\ \A i \in 1..Len(seps) : seps[i] = (IF i % 2 = 1 THEN ":" ELSE ",")
    /\ \A i \in 1..Len(fields) : fields[i].int
    /\ \A i \in 1..Len(fields) : i % 2 = 0 => fields[i].value \in 0..100

\* C18: parse_steps returns one FanStep per temp:power pair, in order, for a
\* comma-separated list of pairs of integers with every power at most 100; for
\* any other argument (a pair without exactly two colon-separated integer parts,
\* a power over 100, the empty string) it returns an error and no request is sent.
C18_ParseSteps ==
    parse.pc = "done" =>
        /\ parse.ret.is_ok = WellFormed(parse.fields, parse.seps)
        /\ parse.ret.is_ok =>
             /\ Len(parse.ret.steps) = Len(parse.fields) \div 2
             /\ \A k \in 1..Len(parse.ret.steps) :
                  /\ parse.ret.steps[k].temp = parse.fields[2 * k - 1].value
                  /\ parse.ret.steps[k].power = parse.fields[2 * k].value
        /\ parse.input = <<>> => ~parse.ret.is_ok
        /\ parse.sent = parse.ret.is_ok

\* " 60 :100,-5:30" gave two steps, and "30:150" was refused.
C18_Witness ==
    /\ parse.pc = "done"
    /\ parse.input = <<" ", "6", "0", " ", ":", "1", "0", "0", ",", "-", "5", ":", "3", "0">>
    /\ parse.ret.is_ok
    /\ parse.ret.steps = << [temp |-> 60, power |-> 100], [temp |-> -5, power |-> 30] >>
    /\ parse.sent

====
